---- MODULE Spec2Model ----
(***************************************************************************)
(* Model of the text-similarity ranking engine of Skills-MCP-GLPI:         *)
(* src/services/similarity_service.py (TextSimilarity, SimilarityService). *)
(*                                                                         *)
(* A Python str is a sequence of characters; a character is a one-token    *)
(* string.  A Python value passed as a text is a record [k, s]: k = "str"  *)
(* with its characters s, k = "none" for None, k = "obj" for a truthy      *)
(* value that is not a str (an int, a list, ...).                          *)
(* A float in [0,1] is a fixed-point natural in units of 1/Scale, rounded  *)
(* down; a combined score is in units of 1/(100*Scale).  The arithmetic is  *)
(* exact: the rounding of the last bit of a Python float is not modelled.  *)
(***************************************************************************)
EXTENDS Integers, Sequences, FiniteSets, TLC

(* ---------------------------------------------------------------------- *)
(* Bounds of the model                                                     *)
(* ---------------------------------------------------------------------- *)
MaxCands == 2
MaxK == 2
MaxItemsCap == 2
(* longest string of the exhaustive arguments of normalize_text *)
MaxLen == 3

(* fixed-point resolution of a similarity value: 1.0 is Scale *)
Scale == 1000
(* 1.0 as a combined score: the weights are hundredths *)
One == 100 * Scale

(* ---------------------------------------------------------------------- *)
(* Characters                                                              *)
(* ---------------------------------------------------------------------- *)
LowerLetters == {"a", "c", "d", "e", "f", "m", "n", "o", "p", "t", "x"}
UpperLetters == {"F", "N"}
Digits == {"1"}
(* precomposed accented letters: U+00E3, U+00C3 *)
Precomposed == {"a_tilde", "A_TILDE"}
(* combining marks, Unicode category Mn: U+0303 *)
CombiningMarks == {"COMB_TILDE"}
(* a precomposed Hangul syllable, U+D55C, and its conjoining jamo, U+1112,
   U+1161, U+11AB (category Lo) *)
HangulSyllables == {"HAN"}
Jamo == {"JAMO_H", "JAMO_A", "JAMO_N"}
Whitespace == {" ", "TAB"}
Punctuation == {"!", "-"}

(* str.lower(), one character *)
lower(c) ==
    CASE c = "F" -> "f"
      [] c = "N" -> "n"
      [] c = "A_TILDE" -> "a_tilde"
      [] OTHER -> c

(* unicodedata.normalize('NFD', .), one character *)
NFD(c) ==
    CASE c = "a_tilde" -> <<"a", "COMB_TILDE">>
      [] c = "A_TILDE" -> <<"A", "COMB_TILDE">>
      [] c = "HAN" -> <<"JAMO_H", "JAMO_A", "JAMO_N">>
      [] OTHER -> <<c>>

(* unicodedata.category(c) == 'Mn' *)
IsMn(c) == c \in CombiningMarks

(* the regular expression class \w: alphanumerics and the underscore *)
IsWordChar(c) ==
    c \in LowerLetters \cup UpperLetters \cup Digits \cup Precomposed \cup HangulSyllables
          \cup Jamo \cup {"_", "A"}

(* the regular expression class \s *)
IsSpaceChar(c) == c \in Whitespace

(* ---------------------------------------------------------------------- *)
(* Sequence helpers                                                        *)
(* ---------------------------------------------------------------------- *)
Min2(a, b) == IF a <= b THEN a ELSE b
Max2(a, b) == IF a >= b THEN a ELSE b

RECURSIVE Flatten(_)
Flatten(ss) == IF ss = <<>> THEN <<>> ELSE Head(ss) \o Flatten(Tail(ss))

Range(s) == {s[i] : i \in 1..Len(s)}

(* list.count(x) *)
Count(s, x) == Cardinality({i \in 1..Len(s) : s[i] = x})

(* re.sub(r'\s+', ' ', text): every maximal run of whitespace becomes one space *)
RECURSIVE CollapseSpaces(_)
CollapseSpaces(s) ==
    IF s = <<>> THEN <<>>
    ELSE IF IsSpaceChar(Head(s))
         THEN IF Len(s) > 1 /\ IsSpaceChar(s[2])
              THEN CollapseSpaces(Tail(s))
              ELSE <<" ">> \o CollapseSpaces(Tail(s))
         ELSE <<Head(s)>> \o CollapseSpaces(Tail(s))

(* str.strip() *)
RECURSIVE LStrip(_)
LStrip(s) == IF s # <<>> /\ IsSpaceChar(Head(s)) THEN LStrip(Tail(s)) ELSE s
RECURSIVE RStrip(_)
RStrip(s) == IF s # <<>> /\ IsSpaceChar(s[Len(s)]) THEN RStrip(SubSeq(s, 1, Len(s) - 1)) ELSE s
Strip(s) == RStrip(LStrip(s))

(* str.split(): the maximal runs of non-whitespace characters, in order *)
RECURSIVE SplitFrom(_, _)
SplitFrom(s, word) ==
    IF s = <<>> THEN (IF word = <<>> THEN <<>> ELSE <<word>>)
    ELSE IF IsSpaceChar(Head(s))
         THEN (IF word = <<>> THEN <<>> ELSE <<word>>) \o SplitFrom(Tail(s), <<>>)
         ELSE SplitFrom(Tail(s), Append(word, Head(s)))
Split(s) == SplitFrom(s, <<>>)

(* ---------------------------------------------------------------------- *)
(* Python values used as texts                                             *)
(* ---------------------------------------------------------------------- *)
Str(s) == [k |-> "str", s |-> s]
NoneVal == [k |-> "none", s |-> <<>>]
ObjVal == [k |-> "obj", s |-> <<>>]
EmptyStr == Str(<<>>)

(* variant: only the empty string is tested, `text == ""` *)
Falsy_EmptyStrOnly(t) == t.k = "str" /\ t.s = <<>>

(* `not text` *)
Falsy(t) == t.k = "none" \/ (t.k = "str" /\ t.s = <<>>)
(* text.lower() raises AttributeError on a value that is not a str *)
NotAStr(t) == t.k # "str"

(* ---------------------------------------------------------------------- *)
(* TextSimilarity                                                          *)
(* ---------------------------------------------------------------------- *)
(* variant: the whitespace is collapsed before the special characters are
   replaced by spaces *)
NormalizeChars_CollapseFirst(s) ==
    LET lowered == [i \in 1..Len(s) |-> lower(s[i])]
        decomposed == Flatten([i \in 1..Len(lowered) |-> NFD(lowered[i])])
        unmarked == SelectSeq(decomposed, LAMBDA c : ~IsMn(c))
        collapsed == CollapseSpaces(unmarked)
        spaced == [i \in 1..Len(collapsed) |->
                      IF IsWordChar(collapsed[i]) \/ IsSpaceChar(collapsed[i])
                      THEN collapsed[i] ELSE " "]
    IN Strip(spaced)

NormalizeChars(s) ==
    LET lowered == [i \in 1..Len(s) |-> lower(s[i])]
        decomposed == Flatten([i \in 1..Len(lowered) |-> NFD(lowered[i])])
        unmarked == SelectSeq(decomposed, LAMBDA c : ~IsMn(c))
        spaced == [i \in 1..Len(unmarked) |->
                      IF IsWordChar(unmarked[i]) \/ IsSpaceChar(unmarked[i])
                      THEN unmarked[i] ELSE " "]
    IN Strip(CollapseSpaces(spaced))

normalize_text(t) == IF Falsy(t) THEN <<>> ELSE NormalizeChars(t.s)

(* the entries of the embedded stop-word list over the model's letters *)
stop_words ==
    { <<"o">>, <<"a">>, <<"d", "e">>, <<"d", "a">>, <<"d", "o">>, <<"e">>,
      <<"e", "m">>, <<"n", "o">>, <<"n", "a">>, <<"t", "e">>,
      <<"n", "e", "m">>, <<"n", "a_tilde", "o">>, <<"t", "o", "d", "o">>,
      <<"t", "o", "d", "a">>, <<"c", "a", "d", "a">>,
      <<"a", "n", "d">>, <<"a", "t">>, <<"t", "o">>, <<"o", "n">>,
      <<"c", "a", "n">>, <<"c", "a", "n", "n", "o", "t">>, <<"m", "e">>,
      <<"e", "n">> }

min_length_default == 3

extract_keywords(t, min_length) ==
    IF Falsy(t) THEN {}
    ELSE LET words == Split(normalize_text(t))
         IN {w \in Range(words) : Len(w) >= min_length /\ w \notin stop_words}

(* floor(Scale * n / d) *)
Ratio(n, d) == (Scale * n) \div d

(* variant: without the test for two empty sets *)
jaccard_similarity_EmptyIsZero(set1, set2) ==
    IF set1 = {} \/ set2 = {} THEN 0
    ELSE (Scale * Cardinality(set1 \cap set2)) \div Cardinality(set1 \cup set2)

jaccard_similarity(set1, set2) ==
    IF set1 = {} /\ set2 = {} THEN Scale
    ELSE IF set1 = {} \/ set2 = {} THEN 0
    ELSE LET intersection == Cardinality(set1 \cap set2)
             union == Cardinality(set1 \cup set2)
         IN IF union > 0 THEN Ratio(intersection, union) ELSE 0

(* floor(sqrt(n)) for 0 <= n, searched in lo..hi *)
RECURSIVE SqrtSearch(_, _, _)
SqrtSearch(lo, hi, n) ==
    IF lo >= hi THEN lo
    ELSE LET mid == (lo + hi + 1) \div 2
         IN IF mid * mid <= n THEN SqrtSearch(mid, hi, n) ELSE SqrtSearch(lo, mid - 1, n)

(* floor(a * n / d) for 0 <= n <= d, d > 0, without an intermediate product *)
RECURSIVE MulDivRem(_, _, _)
MulDivRem(a, n, d) ==
    IF a = 0 THEN [q |-> 0, r |-> 0]
    ELSE LET h == MulDivRem(a \div 2, n, d)
             r2 == 2 * h.r + (IF a % 2 = 1 THEN n ELSE 0)
         IN [q |-> 2 * h.q + (r2 \div d), r |-> r2 % d]
MulDiv(a, n, d) == MulDivRem(a, n, d).q

(* variant: the dot product is divided by the squared norms, without the
   square roots *)
CosineOf_NoSqrt(dot, sq1, sq2) ==
    IF sq1 = 0 \/ sq2 = 0 THEN 0
    ELSE MulDiv(Scale, dot, sq1 * sq2)

(* floor(Scale * dot / (sqrt(sq1) * sqrt(sq2))), for dot*dot <= sq1*sq2:
   math.sqrt, the norm1 == 0 or norm2 == 0 guard and the division *)
CosineOf(dot, sq1, sq2) ==
    IF sq1 = 0 \/ sq2 = 0 THEN 0
    ELSE SqrtSearch(0, Scale, MulDiv(Scale * Scale, dot * dot, sq1 * sq2))

cosine_similarity(t1, t2) ==
    IF Falsy(t1) \/ Falsy(t2) THEN 0
    ELSE LET words1 == Split(normalize_text(t1))
             words2 == Split(normalize_text(t2))
         IN IF words1 = <<>> \/ words2 = <<>> THEN 0
            ELSE LET vocab == Range(words1 \o words2)
                     Sum[S \in SUBSET vocab] ==
                         IF S = {} THEN [dot |-> 0, sq1 |-> 0, sq2 |-> 0]
                         ELSE LET w == CHOOSE x \in S : TRUE
                                  r == Sum[S \ {w}]
                                  a == Count(words1, w)
                                  b == Count(words2, w)
                              IN [dot |-> r.dot + a * b, sq1 |-> r.sq1 + a * a,
                                  sq2 |-> r.sq2 + b * b]
                     v == Sum[vocab]
                 IN CosineOf(v.dot, v.sq1, v.sq2)

(* one row of the dynamic-programming matrix: row holds dp[i][0..Len(row)-1] *)
RECURSIVE LevRow(_, _, _, _)
LevRow(prev, ch, b, row) ==
    LET j == Len(row)
    IN IF j > Len(b) THEN row
       ELSE LevRow(prev, ch, b,
                Append(row, IF ch = b[j] THEN prev[j]
                            ELSE 1 + Min2(prev[j + 1], Min2(row[j], prev[j]))))

RECURSIVE LevRows(_, _, _, _)
LevRows(prev, a, b, i) ==
    IF i > Len(a) THEN prev
    ELSE LevRows(LevRow(prev, a[i], b, <<i>>), a, b, i + 1)

(* len(text) of a str *)
PyLen(t) == Len(t.s)

levenshtein_distance(t1, t2) ==
    IF Falsy(t1) THEN (IF Falsy(t2) THEN 0 ELSE PyLen(t2))
    ELSE IF Falsy(t2) THEN PyLen(t1)
    ELSE LET a == normalize_text(t1)
             b == normalize_text(t2)
             last == LevRows([j \in 1..(Len(b) + 1) |-> j - 1], a, b, 1)
         IN last[Len(b) + 1]

levenshtein_similarity(t1, t2) ==
    IF Falsy(t1) /\ Falsy(t2) THEN Scale
    ELSE IF Falsy(t1) \/ Falsy(t2) THEN 0
    ELSE LET distance == levenshtein_distance(t1, t2)
             max_len == Max2(PyLen(t1), PyLen(t2))
         IN IF max_len > 0 THEN Ratio(max_len - distance, max_len) ELSE Scale

(* (math.log(2 / (df + 1)) + 1) squared, in hundredths: df = 1 gives 1.0,
   df = 2 gives 0.5945 squared; the tf divisor len(words) cancels in the
   cosine of the two vectors *)
IdfSquared(df) == IF df = 2 THEN 35 ELSE 100

tfidf_similarity(t1, t2) ==
    IF Falsy(t1) \/ Falsy(t2) THEN 0
    ELSE LET words1 == Split(normalize_text(t1))
             words2 == Split(normalize_text(t2))
         IN IF words1 = <<>> \/ words2 = <<>> THEN 0
            ELSE LET vocab == Range(words1 \o words2)
                     df(w) == (IF Count(words1, w) > 0 THEN 1 ELSE 0)
                              + (IF Count(words2, w) > 0 THEN 1 ELSE 0)
                     Sum[S \in SUBSET vocab] ==
                         IF S = {} THEN [dot |-> 0, sq1 |-> 0, sq2 |-> 0]
                         ELSE LET w == CHOOSE x \in S : TRUE
                                  r == Sum[S \ {w}]
                                  a == Count(words1, w)
                                  b == Count(words2, w)
                                  k == IdfSquared(df(w))
                              IN [dot |-> r.dot + a * b * k, sq1 |-> r.sq1 + a * a * k,
                                  sq2 |-> r.sq2 + b * b * k]
                     v == Sum[vocab]
                 IN CosineOf(v.dot, v.sq1, v.sq2)

(* difflib.SequenceMatcher.find_longest_match without junk: the longest
   common block, the earliest in a, then the earliest in b *)
LongestMatch(a, b) ==
    LET blocks == {m \in (1..Len(a)) \X (1..Len(b)) \X (1..Min2(Len(a), Len(b))) :
                      /\ m[1] + m[3] - 1 <= Len(a)
                      /\ m[2] + m[3] - 1 <= Len(b)
                      /\ SubSeq(a, m[1], m[1] + m[3] - 1) = SubSeq(b, m[2], m[2] + m[3] - 1)}
    IN IF blocks = {} THEN <<1, 1, 0>>
       ELSE CHOOSE m \in blocks : \A o \in blocks :
                \/ m[3] > o[3]
                \/ m[3] = o[3] /\ m[1] < o[1]
                \/ m[3] = o[3] /\ m[1] = o[1] /\ m[2] <= o[2]

(* total size of SequenceMatcher.get_matching_blocks() *)
RECURSIVE MatchingSize(_, _)
MatchingSize(a, b) ==
    IF a = <<>> \/ b = <<>> THEN 0
    ELSE LET m == LongestMatch(a, b)
         IN IF m[3] = 0 THEN 0
            ELSE m[3] + MatchingSize(SubSeq(a, 1, m[1] - 1), SubSeq(b, 1, m[2] - 1))
                      + MatchingSize(SubSeq(a, m[1] + m[3], Len(a)),
                                     SubSeq(b, m[2] + m[3], Len(b)))

(* SequenceMatcher(None, a, b).ratio() *)
SequenceRatio(a, b) ==
    IF Len(a) + Len(b) = 0 THEN Scale
    ELSE Ratio(2 * MatchingSize(a, b), Len(a) + Len(b))

sequence_similarity(t1, t2) ==
    IF Falsy(t1) \/ Falsy(t2) THEN 0
    ELSE SequenceRatio(normalize_text(t1), normalize_text(t2))

(* the weights of combined_similarity, in hundredths *)
weights == [sequence |-> 30, cosine |-> 30, jaccard |-> 25, title_bonus |-> 15]

(* variant: a fifth weight for levenshtein, as before the four-weight audit *)
combined_similarity_FiveWeights(t1, t2, title1, title2) ==
    IF Falsy(t1) \/ Falsy(t2) THEN 0
    ELSE LET title_sim == IF ~Falsy(title1) /\ ~Falsy(title2)
                          THEN sequence_similarity(title1, title2) ELSE 0
             combined == 25 * sequence_similarity(t1, t2) + 25 * cosine_similarity(t1, t2)
                         + 20 * jaccard_similarity(extract_keywords(t1, 3),
                                                   extract_keywords(t2, 3))
                         + 15 * levenshtein_similarity(t1, t2) + 15 * title_sim
         IN Min2(One, combined)

(* variant: the title bonus is added unweighted and the sum is not clamped *)
combined_similarity_NoClamp(t1, t2, title1, title2) ==
    IF Falsy(t1) \/ Falsy(t2) THEN 0
    ELSE LET title_sim == IF ~Falsy(title1) /\ ~Falsy(title2)
                          THEN sequence_similarity(title1, title2) ELSE 0
         IN 30 * sequence_similarity(t1, t2) + 30 * cosine_similarity(t1, t2)
            + 25 * jaccard_similarity(extract_keywords(t1, 3), extract_keywords(t2, 3))
            + 100 * title_sim

(* variant: no early return for an empty text *)
combined_similarity_NoShortCircuit(t1, t2, title1, title2) ==
    LET title_sim == IF ~Falsy(title1) /\ ~Falsy(title2)
                     THEN sequence_similarity(title1, title2) ELSE 0
    IN Min2(One, 30 * sequence_similarity(t1, t2) + 30 * cosine_similarity(t1, t2)
                 + 25 * jaccard_similarity(extract_keywords(t1, 3), extract_keywords(t2, 3))
                 + 15 * title_sim)

combined_similarity(t1, t2, title1, title2) ==
    IF Falsy(t1) \/ Falsy(t2) THEN 0
    ELSE LET seq_sim == sequence_similarity(t1, t2)
             cos_sim == cosine_similarity(t1, t2)
             jac_sim == jaccard_similarity(extract_keywords(t1, min_length_default),
                                           extract_keywords(t2, min_length_default))
             title_sim == IF ~Falsy(title1) /\ ~Falsy(title2)
                          THEN sequence_similarity(title1, title2) ELSE 0
             combined == weights.sequence * seq_sim + weights.cosine * cos_sim
                         + weights.jaccard * jac_sim + weights.title_bonus * title_sim
         IN Min2(One, combined)

(* ---------------------------------------------------------------------- *)
(* Exceptions of the metrics: normalize_text calls text.lower(), which     *)
(* raises AttributeError when a truthy text is not a str                   *)
(* ---------------------------------------------------------------------- *)
PairRaises(t1, t2) == ~Falsy(t1) /\ ~Falsy(t2) /\ (NotAStr(t1) \/ NotAStr(t2))
KeywordsRaise(t) == ~Falsy(t) /\ NotAStr(t)
CombinedRaises(t1, t2, title1, title2) ==
    /\ ~Falsy(t1) /\ ~Falsy(t2)
    /\ \/ NotAStr(t1) \/ NotAStr(t2)
       \/ PairRaises(title1, title2)

(* ---------------------------------------------------------------------- *)
(* SimilarityService._calculate_single_similarity                          *)
(* args = <<id1, text1, title1, id2, text2, title2>>                       *)
(* ---------------------------------------------------------------------- *)
SingleRaises(args) ==
    \/ PairRaises(args[2], args[5])
    \/ KeywordsRaise(args[2]) \/ KeywordsRaise(args[5])
    \/ CombinedRaises(args[2], args[5], args[3], args[6])

calculate_single_similarity(args) ==
    IF SingleRaises(args)
    THEN [id1 |-> args[1], id2 |-> args[4], error |-> TRUE,
          sequence |-> 0, cosine |-> 0, jaccard |-> 0, levenshtein |-> 0,
          tfidf |-> 0, combined |-> 0]
    ELSE [id1 |-> args[1], id2 |-> args[4], error |-> FALSE,
          sequence |-> sequence_similarity(args[2], args[5]),
          cosine |-> cosine_similarity(args[2], args[5]),
          jaccard |-> jaccard_similarity(extract_keywords(args[2], min_length_default),
                                         extract_keywords(args[5], min_length_default)),
          levenshtein |-> levenshtein_similarity(args[2], args[5]),
          tfidf |-> tfidf_similarity(args[2], args[5]),
          combined |-> combined_similarity(args[2], args[5], args[3], args[6])]

(* ---------------------------------------------------------------------- *)
(* Inputs: tickets, thresholds                                             *)
(* ---------------------------------------------------------------------- *)
tNetFax == Str(<<"n", "e", "t", " ", "f", "a", "x">>)
tNetFaxLoud == Str(<<"N", "e", "t", " ", " ", "f", "a", "x", "!">>)
tNetTop == Str(<<"n", "e", "t", " ", "t", "o", "p">>)
tFax == Str(<<"f", "a", "x">>)
tTop == Str(<<"t", "o", "p">>)

(* a ticket is a dict with 'id', 'content' and 'title', or (dict = FALSE)
   an object without .get, such as None *)
Ticket(id, content, title) == [dict |-> TRUE, id |-> id, content |-> content, title |-> title]
NotADict == [dict |-> FALSE, id |-> 0, content |-> NoneVal, title |-> NoneVal]

TargetPool ==
    { Ticket(1, tNetFax, tFax), Ticket(1, tNetFax, EmptyStr) }

CandidatePool ==
    { Ticket(2, tNetFax, tFax),
      Ticket(3, tNetFaxLoud, tFax),
      Ticket(4, tNetTop, tTop),
      Ticket(5, EmptyStr, tFax),
      Ticket(6, ObjVal, tFax),
      NotADict }

(* the arguments of the direct calls of combined_similarity *)
tFaxNet == Str(<<"f", "a", "x", " ", "n", "e", "t">>)
tPunct == Str(<<"!", "-">>)
tBangs == Str(<<"!", "!">>)
tNaoDeNet == Str(<<"n", "a_tilde", "o", " ", "d", "e", " ", "n", "e", "t">>)
TextPool == {EmptyStr, NoneVal, tNetFax, tNetFaxLoud, tNetTop, tFaxNet, tPunct, tBangs,
             tNaoDeNet}
TitlePool == {EmptyStr, NoneVal, tFax, tTop, ObjVal}

(* the arguments of the direct calls of the other functions of TextSimilarity *)
tHan == Str(<<"HAN">>)
tUnder == Str(<<"n", "e", "t", "_", "f", "a", "x">>)
tDash == Str(<<"n", "e", "t", " ", "-", " ", "f", "a", "x">>)
MetricPool == TextPool \cup {tHan, tUnder, tDash, ObjVal}
(* every string up to MaxLen over one character of each kind: lowercase,
   uppercase, digit, precomposed accented capital, combining mark, Hangul
   syllable, space, tab, punctuation, underscore *)
NormAlphabet == {"a", "N", "1", "A_TILDE", "COMB_TILDE", "HAN", " ", "TAB", "!", "_"}
NormalizePool ==
    MetricPool \cup {Str(s) : s \in UNION {[1..m -> NormAlphabet] : m \in 0..MaxLen}}
(* every entry of the modelled stop-word list as a text, and the values of
   min_length other than the default *)
StopWordTexts == {Str(w) : w \in stop_words}
KeywordPool == MetricPool \cup StopWordTexts
MinLengths == {1, 2, 4}
KeywordSets == SUBSET {<<"n", "e", "t">>, <<"f", "a", "x">>, <<"t", "o", "p">>}

(* thresholds 0.0, 0.3 (the default) and 0.9 *)
Thresholds == {0, 30 * Scale, 90 * Scale}

(* the lists of pairwise different tickets of a pool, up to a length *)
NoRepeat(l) == \A i, j \in 1..Len(l) : i # j => l[i] # l[j]
ListsOf(pool, n) == {l \in UNION {[1..m -> pool] : m \in 0..n} : NoRepeat(l)}

(* ---------------------------------------------------------------------- *)
(* List helpers of the service                                             *)
(* ---------------------------------------------------------------------- *)
(* variant: one entry too many *)
SliceTo_OffByOne(l, n) == SubSeq(l, 1, Min2(n + 1, Len(l)))

(* list[:n] *)
SliceTo(l, n) ==
    IF n >= 0 THEN SubSeq(l, 1, Min2(n, Len(l)))
    ELSE SubSeq(l, 1, Max2(0, Len(l) + n))

(* list.sort(key = combined, reverse = True): stable, equal keys keep
   their order *)
RECURSIVE InsertDesc(_, _)
InsertDesc(sorted, r) ==
    IF sorted = <<>> THEN <<r>>
    ELSE IF Head(sorted).combined >= r.combined
         THEN <<Head(sorted)>> \o InsertDesc(Tail(sorted), r)
         ELSE <<r>> \o sorted

(* variant: the list is left in the order of completion *)
SortDesc_Unsorted(l) == l

RECURSIVE SortDesc(_)
SortDesc(l) ==
    IF l = <<>> THEN <<>>
    ELSE InsertDesc(SortDesc(SubSeq(l, 1, Len(l) - 1)), l[Len(l)])

(* variant: the threshold is not applied *)
Passes_NoThreshold(r, thr) == ~r.error

(* the test of lines 380 and 392 *)
Passes(r, thr) == ~r.error /\ r.combined >= thr

(* ---------------------------------------------------------------------- *)
(* SimilarityService: one call of find_similar_tickets or of               *)
(* calculate_similarity_matrix                                             *)
(* ---------------------------------------------------------------------- *)
VARIABLES
    op,              \* "find" or "matrix": the method that was called
    target_ticket,   \* find: the target
    tickets,         \* candidate_tickets of find, tickets of matrix
    threshold,
    max_results,
    max_items,       \* self.max_items (settings.similarity_max_items)
    pc,              \* position of the call
    args_list,       \* args_list of find, pairs of matrix
    scored,          \* scored[i]: the value of _calculate_single_similarity(args_list[i])
    futures,         \* futures[i]: "pending", "done" (yielded by as_completed), "hung"
    similarities,
    results,         \* the returned list, once pc = "done"
    executor_failed, \* the outer except clause was entered
    dropped,         \* futures whose result() raised
    call,            \* "text": the arguments of a direct call of a TextSimilarity function
    value            \* "text": what that call returned

(* TicketService: the call of find_similar_tickets(ticket_id, **kwargs) that
   ends in the call of the similarity service *)
VARIABLES
    ticket_id,       \* the argument of TicketService.find_similar_tickets
    glpi_tickets     \* the tickets GLPI holds, in the order list_tickets returns them

service == <<ticket_id, glpi_tickets>>

(* SafetyGuard and the delete_ticket tool *)
VARIABLES
    guard_enabled,    \* SafetyGuard._guard_enabled
    safety_token,     \* SafetyGuard._safety_token
    tool_call,        \* the arguments of the call of TicketTools.delete_ticket
    service_calls,    \* calls of ticket_service.delete_ticket
    delete_requests   \* DELETE requests sent to GLPI

guard == <<guard_enabled, safety_token, tool_call, service_calls, delete_requests>>

(* SessionManager *)
VARIABLES
    now,                    \* time.time(), in seconds
    client_connected,       \* self._client is not None
    rate_limits,            \* self._rate_limits: user_key -> (count, last_reset)
    rate_limit_per_minute,  \* self._rate_limit_per_minute
    passed,                 \* per key: the calls that returned since the key's window was last reset
    last_check              \* the last call of _check_rate_limit and how it ended

limiter == <<rate_limits, rate_limit_per_minute, passed, last_check>>

VARIABLES
    session_cache,    \* self._session_cache: cache key -> (data, timestamp)
    cache_ttl,        \* self._cache_ttl
    user_sessions,    \* the keys of self._user_sessions: the user tokens with a pooled client
    fallback_token,   \* settings.glpi_user_token
    glpi_version,     \* what GLPI answers at the moment: 0 for a JSON null, else a content
    requests,         \* the calls of get that wait for GLPI
    calls,            \* the number of calls of get so far
    last_get,         \* the call of get that ended in the step just taken, and how
    saved             \* per endpoint and params: the last answer a get saved, and when

getter == <<session_cache, cache_ttl, user_sessions, fallback_token, glpi_version,
            requests, calls, last_get, saved>>

session == <<now, client_connected, limiter, getter>>

(* the state outside the similarity service *)
outside == <<service, guard, session>>

vars == <<op, target_ticket, tickets, threshold, max_results, max_items, pc,
          args_list, scored, futures, similarities, results, executor_failed, dropped,
          call, value, outside>>

(* no call of the ticket service is under way *)
ServiceIdle == ticket_id = 0 /\ glpi_tickets = <<>>

NoToolCall == [ticket_id |-> 0, confirmationToken |-> NoneVal, reason |-> NoneVal]

(* no call of the delete_ticket tool is under way *)
GuardIdle ==
    /\ guard_enabled = FALSE
    /\ safety_token = <<>>
    /\ tool_call = NoToolCall
    /\ service_calls = 0
    /\ delete_requests = 0

(* the rate-limit keys: the composite keys of two clients *)
UserKeys == {"u1", "u2"}
(* no entry of a dict under a key *)
Absent == [count |-> 0, last_reset |-> 0, present |-> FALSE]
NoCheck == [user_key |-> "", raised |-> FALSE, reset |-> FALSE, passed_before |-> 0]

(* SessionManager.__init__ *)
LimiterIdle ==
    /\ rate_limits = [k \in UserKeys |-> Absent]
    /\ passed = [k \in UserKeys |-> 0]
    /\ last_check = NoCheck

(* the endpoint and the params dicts of the calls of get, as lists of items
   in insertion order; names and values are numbered *)
Endpoint == "/apirest.php/Ticket"
Item(name, v) == [name |-> name, value |-> v]
pRangeSort == <<Item(1, 1), Item(2, 1)>>
pSortRange == <<Item(2, 1), Item(1, 1)>>
pOther == <<Item(1, 2)>>
ParamsPool == {pRangeSort, pSortRange, pOther}

(* sorted(params.items()) *)
RECURSIVE SortItems(_)
SortItems(p) ==
    IF p = <<>> THEN <<>>
    ELSE LET least == CHOOSE i \in 1..Len(p) : \A j \in 1..Len(p) : p[i].name <= p[j].name
         IN <<p[least]>> \o SortItems([k \in 1..(Len(p) - 1) |->
                                          IF k < least THEN p[k] ELSE p[k + 1]])

(* _get_cache_key: the digest of the endpoint and the sorted items; two
   inputs have the same digest when these are the same *)
get_cache_key(endpoint, params) == [endpoint |-> endpoint, items |-> SortItems(params)]

CacheKeys == {get_cache_key(Endpoint, p) : p \in ParamsPool}

(* a params dict as Python compares dicts: the set of its items *)
SameParams(p) == {p[i] : i \in 1..Len(p)}
Dicts == {SameParams(p) : p \in ParamsPool}

(* response.json(): None, or a content GLPI gave to the session of a token *)
NoData == [v |-> 0, by |-> ""]
NoEntry == [data |-> NoData, timestamp |-> 0, present |-> FALSE]
NoAnswer == [data |-> NoData, at |-> 0, present |-> FALSE]
NoGet == [token |-> "", use_cache |-> FALSE, outcome |-> "",
          data |-> NoData, cached |-> FALSE, fetches |-> 0, inits |-> 0,
          owed |-> FALSE, owed_data |-> NoData, due |-> FALSE, due_data |-> NoData]

GetterIdle ==
    /\ session_cache = [ck \in CacheKeys |-> NoEntry]
    /\ user_sessions = {}
    /\ glpi_version = 1
    /\ requests = {}
    /\ calls = 0
    /\ last_get = NoGet
    /\ saved = [d \in Dicts |-> NoAnswer]

SessionIdle ==
    /\ now = 0
    /\ client_connected = FALSE
    /\ rate_limit_per_minute = 1
    /\ LimiterIdle
    /\ cache_ttl = 1
    /\ fallback_token = ""
    /\ GetterIdle

OutsideIdle == ServiceIdle /\ GuardIdle /\ SessionIdle

inputs == <<op, target_ticket, tickets, threshold, max_results, max_items, call, value>>

NoCall == [text1 |-> EmptyStr, text2 |-> EmptyStr, title1 |-> EmptyStr, title2 |-> EmptyStr,
           raised |-> FALSE]

Init ==
    /\ \/ /\ op \in {"find", "matrix"}
          /\ target_ticket \in TargetPool
          /\ tickets \in ListsOf(CandidatePool, MaxCands)
          /\ threshold \in Thresholds
          /\ max_results \in 0..MaxK
          /\ max_items \in (MaxItemsCap - 1)..MaxItemsCap
          /\ pc = "start"
       \/ /\ op = "text"
          /\ target_ticket = Ticket(1, tNetFax, tFax)
          /\ tickets = <<>>
          /\ threshold = 0
          /\ max_results = 0
          /\ max_items = MaxItemsCap
          /\ pc = "text"
    /\ call = NoCall
    /\ value = 0
    /\ args_list = <<>>
    /\ scored = <<>>
    /\ futures = <<>>
    /\ similarities = <<>>
    /\ results = <<>>
    /\ executor_failed = FALSE
    /\ dropped = {}
    /\ OutsideIdle

(* variant: the list is not capped *)
Limited_NoCap(l) == l

(* tickets[:self.max_items] when the list is longer *)
Limited(l) == IF Len(l) > max_items THEN SubSeq(l, 1, max_items) ELSE l

(* lines 341-363: the empty-list return, the cap and the argument tuples;
   ticket.get raises AttributeError outside any try when a ticket is not a dict *)
FindArgs(target, cands) ==
    [i \in 1..Len(cands) |->
        <<cands[i].id, target.content, target.title,
          cands[i].id, cands[i].content, cands[i].title>>]

(* variant: no early return for an empty candidate list, the pool is created
   with no task *)
PrepareFind_NoEarlyReturn ==
    /\ pc = "start" /\ op = "find"
    /\ LET cands == Limited(tickets)
       IN IF \E i \in 1..Len(cands) : ~cands[i].dict
          THEN /\ pc' = "raised"
               /\ UNCHANGED <<outside, args_list, scored>>
          ELSE /\ pc' = "pool"
               /\ args_list' = FindArgs(target_ticket, cands)
               /\ scored' = [i \in 1..Len(cands) |->
                                calculate_single_similarity(FindArgs(target_ticket, cands)[i])]
    /\ UNCHANGED <<outside, inputs, futures, similarities, results, executor_failed, dropped>>

PrepareFind ==
    /\ pc = "start" /\ op = "find"
    /\ IF tickets = <<>>
       THEN /\ pc' = "done"
            /\ UNCHANGED <<outside, args_list, scored>>
       ELSE LET cands == Limited(tickets)
            IN IF \E i \in 1..Len(cands) : ~cands[i].dict
               THEN /\ pc' = "raised"
                    /\ UNCHANGED <<outside, args_list, scored>>
               ELSE /\ pc' = "pool"
                    /\ args_list' = FindArgs(target_ticket, cands)
                    /\ scored' = [i \in 1..Len(cands) |->
                                     calculate_single_similarity(FindArgs(target_ticket, cands)[i])]
    /\ UNCHANGED <<outside, inputs, futures, similarities, results, executor_failed, dropped>>

(* variant: the inner loop starts at 0 and only skips j = i, so every pair
   is produced in both orders *)
RECURSIVE PairsFrom_BothOrders(_, _, _)
PairsFrom_BothOrders(l, i, j) ==
    IF i > Len(l) THEN <<>>
    ELSE IF j > Len(l) THEN PairsFrom_BothOrders(l, i + 1, 1)
    ELSE (IF i = j THEN <<>>
          ELSE <<<<l[i].id, l[i].content, l[i].title, l[j].id, l[j].content, l[j].title>>>>)
         \o PairsFrom_BothOrders(l, i, j + 1)

(* lines 421-443: all pairs i < j of the capped list *)
RECURSIVE PairsFrom(_, _, _)
PairsFrom(l, i, j) ==
    IF i > Len(l) THEN <<>>
    ELSE IF j > Len(l) THEN PairsFrom(l, i + 1, i + 2)
    ELSE <<<<l[i].id, l[i].content, l[i].title, l[j].id, l[j].content, l[j].title>>>>
         \o PairsFrom(l, i, j + 1)

PrepareMatrix ==
    /\ pc = "start" /\ op = "matrix"
    /\ IF Len(tickets) < 2
       THEN /\ pc' = "done"
            /\ UNCHANGED <<outside, args_list, scored>>
       ELSE LET l == Limited(tickets)
            IN IF \E i \in 1..Len(l) : ~l[i].dict
               THEN /\ pc' = "raised"
                    /\ UNCHANGED <<outside, args_list, scored>>
               ELSE /\ pc' = "pool"
                    /\ args_list' = PairsFrom(l, 1, 2)
                    /\ scored' = [i \in 1..Len(PairsFrom(l, 1, 2)) |->
                                     calculate_single_similarity(PairsFrom(l, 1, 2)[i])]
    /\ UNCHANGED <<outside, inputs, futures, similarities, results, executor_failed, dropped>>

(* lines 369-374, 449-453: the pool is created and every task submitted *)
StartPool ==
    /\ pc = "pool"
    /\ pc' = "collect"
    /\ futures' = [i \in 1..Len(args_list) |-> "pending"]
    /\ UNCHANGED <<outside, inputs, args_list, scored, similarities, results, executor_failed, dropped>>

(* lines 377-381, 455-459: as_completed yields future i, in any order of
   completion, and its result passes the test or not *)
CollectResult(i) ==
    /\ pc = "collect" /\ futures[i] = "pending"
    /\ futures' = [futures EXCEPT ![i] = "done"]
    /\ similarities' = IF Passes(scored[i], threshold)
                       THEN Append(similarities, scored[i]) ELSE similarities
    /\ UNCHANGED <<outside, inputs, pc, args_list, scored, results, executor_failed, dropped>>

(* lines 382-384, 460-461: future.result() raises (the worker process died,
   the task could not be pickled): logged, nothing appended *)
CollectException(i) ==
    /\ pc = "collect" /\ futures[i] = "pending"
    /\ futures' = [futures EXCEPT ![i] = "done"]
    /\ dropped' = dropped \cup {i}
    /\ UNCHANGED <<outside, inputs, pc, args_list, scored, similarities, results, executor_failed>>

(* the worker of task i never finishes: as_completed has no timeout, and
   result(timeout=30) is only called on futures that are already finished *)
Hang(i) ==
    /\ pc = "collect" /\ futures[i] = "pending"
    /\ futures' = [futures EXCEPT ![i] = "hung"]
    /\ UNCHANGED <<outside, inputs, pc, args_list, scored, similarities, results, executor_failed, dropped>>

(* lines 397-404: sort, truncate, return *)
Returned(l) == SliceTo(SortDesc(l), max_results)

(* every future was yielded: the with block ends, then lines 397-404 or 466-470 *)
Finish ==
    /\ pc = "collect"
    /\ \A i \in 1..Len(futures) : futures[i] = "done"
    /\ similarities' = SortDesc(similarities)
    /\ results' = IF op = "find" THEN Returned(similarities) ELSE SortDesc(similarities)
    /\ pc' = "done"
    /\ UNCHANGED <<outside, inputs, args_list, scored, futures, executor_failed, dropped>>

(* lines 386-387: an exception leaves the with block (the pool cannot be
   created, submit fails, the collection loop fails); the exit of the with
   block waits for the running tasks *)
FindExecutorFails ==
    /\ op = "find" /\ pc \in {"pool", "collect"}
    /\ \A i \in 1..Len(futures) : futures[i] # "hung"
    /\ executor_failed' = TRUE
    /\ pc' = "fallback"
    /\ UNCHANGED <<outside, inputs, args_list, scored, futures, similarities, results, dropped>>

(* lines 388-395, then 397-404: sequential scoring of every args *)
RECURSIVE SequentialPass(_, _, _)
SequentialPass(acc, rs, thr) ==
    IF rs = <<>> THEN acc
    ELSE SequentialPass(IF Passes(Head(rs), thr) THEN Append(acc, Head(rs)) ELSE acc,
                        Tail(rs), thr)

Fallback ==
    /\ pc = "fallback"
    /\ similarities' = SortDesc(SequentialPass(similarities, scored, threshold))
    /\ results' = Returned(SequentialPass(similarities, scored, threshold))
    /\ pc' = "done"
    /\ UNCHANGED <<outside, inputs, args_list, scored, futures, executor_failed, dropped>>

(* lines 463-470: the matrix has no fallback, it sorts and returns what it has *)
MatrixExecutorFails ==
    /\ op = "matrix" /\ pc \in {"pool", "collect"}
    /\ \A i \in 1..Len(futures) : futures[i] # "hung"
    /\ executor_failed' = TRUE
    /\ similarities' = SortDesc(similarities)
    /\ results' = SortDesc(similarities)
    /\ pc' = "done"
    /\ UNCHANGED <<outside, inputs, args_list, scored, futures, dropped>>

(* a direct call TextSimilarity.combined_similarity(text1, text2, title1, title2) *)
CallCombined(t1, t2, a, b) ==
    /\ pc = "text"
    /\ pc' = "returned"
    /\ call' = [text1 |-> t1, text2 |-> t2, title1 |-> a, title2 |-> b,
                raised |-> CombinedRaises(t1, t2, a, b)]
    /\ value' = IF CombinedRaises(t1, t2, a, b) THEN 0 ELSE combined_similarity(t1, t2, a, b)
    /\ UNCHANGED <<outside, op, target_ticket, tickets, threshold, max_results, max_items,
                   args_list, scored, futures, similarities, results, executor_failed,
                   dropped>>

(* a direct call of another function of TextSimilarity: what was called, with
   which arguments, whether it raised and what it returned *)
MetricCall(fn, a1, a2, raises, v) ==
    /\ pc = "text"
    /\ pc' = "computed"
    /\ call' = [fn |-> fn, text1 |-> a1, text2 |-> a2, raised |-> raises]
    /\ value' = IF raises THEN 0 ELSE v
    /\ UNCHANGED <<outside, op, target_ticket, tickets, threshold, max_results, max_items,
                   args_list, scored, futures, similarities, results, executor_failed,
                   dropped>>

CallNormalize(t) ==
    MetricCall("normalize_text", t, EmptyStr, KeywordsRaise(t), normalize_text(t))

CallKeywords(t) ==
    MetricCall("extract_keywords", t, EmptyStr, KeywordsRaise(t),
               extract_keywords(t, min_length_default))

CallKeywordsMinLength(t, min_length) ==
    /\ pc = "text"
    /\ pc' = "computed"
    /\ call' = [fn |-> "extract_keywords(text, min_length)", text1 |-> t,
                min_length |-> min_length, raised |-> KeywordsRaise(t)]
    /\ value' = IF KeywordsRaise(t) THEN 0 ELSE extract_keywords(t, min_length)
    /\ UNCHANGED <<outside, op, target_ticket, tickets, threshold, max_results, max_items,
                   args_list, scored, futures, similarities, results, executor_failed,
                   dropped>>

CallJaccard(set1, set2) ==
    /\ pc = "text"
    /\ pc' = "computed"
    /\ call' = [fn |-> "jaccard_similarity", set1 |-> set1, set2 |-> set2, raised |-> FALSE]
    /\ value' = jaccard_similarity(set1, set2)
    /\ UNCHANGED <<outside, op, target_ticket, tickets, threshold, max_results, max_items,
                   args_list, scored, futures, similarities, results, executor_failed,
                   dropped>>

CallCosine(t1, t2) ==
    MetricCall("cosine_similarity", t1, t2, PairRaises(t1, t2), cosine_similarity(t1, t2))

CallLevenshteinDistance(t1, t2) ==
    MetricCall("levenshtein_distance", t1, t2, PairRaises(t1, t2),
               levenshtein_distance(t1, t2))

CallLevenshtein(t1, t2) ==
    MetricCall("levenshtein_similarity", t1, t2, PairRaises(t1, t2),
               levenshtein_similarity(t1, t2))

CallTfidf(t1, t2) ==
    MetricCall("tfidf_similarity", t1, t2, PairRaises(t1, t2), tfidf_similarity(t1, t2))

CallSequence(t1, t2) ==
    MetricCall("sequence_similarity", t1, t2, PairRaises(t1, t2),
               sequence_similarity(t1, t2))

(* ---------------------------------------------------------------------- *)
(* TicketService.find_similar_tickets                                      *)
(* ---------------------------------------------------------------------- *)
(* a ticket as GLPI returns it *)
GlpiTicket(id, name, content) == [id |-> id, name |-> name, content |-> content]

GlpiPool ==
    { GlpiTicket(1, tFax, tNetFax),
      GlpiTicket(2, tFax, tNetFax),
      GlpiTicket(3, tTop, tNetTop) }

TicketIds == {0, 1, 2}

(* get_ticket: the ticket GLPI holds under the id, <<>> when there is none *)
get_ticket(id) == SelectSeq(glpi_tickets, LAMBDA t : t.id = id)

(* variant: every listed ticket is a candidate *)
Candidates_NoFilter(listed, id) ==
    [i \in 1..Len(listed) |-> Ticket(listed[i].id, listed[i].content, listed[i].name)]

(* the candidate_tickets argument: the listed tickets whose id is not
   ticket_id, with name renamed to title *)
Candidates(listed, id) ==
    LET kept == SelectSeq(listed, LAMBDA t : t.id # id)
    IN [i \in 1..Len(kept) |-> Ticket(kept[i].id, kept[i].content, kept[i].name)]

(* the whole method up to the call of the similarity service, which the
   steps of find_similar_tickets then carry out *)
ServiceFindSimilar(thr, k) ==
    /\ pc = "service"
    /\ IF ticket_id <= 0
       THEN /\ pc' = "ValidationError"
            /\ UNCHANGED <<op, target_ticket, tickets, threshold, max_results>>
       ELSE IF get_ticket(ticket_id) = <<>>
       THEN /\ pc' = "NotFoundError"
            /\ UNCHANGED <<op, target_ticket, tickets, threshold, max_results>>
       ELSE /\ pc' = "start"
            /\ op' = "find"
            /\ target_ticket' = LET reference == get_ticket(ticket_id)[1]
                                IN Ticket(reference.id, reference.content, reference.name)
            /\ tickets' = Candidates(glpi_tickets, ticket_id)
            /\ threshold' = thr
            /\ max_results' = k
    /\ UNCHANGED <<outside, max_items, args_list, scored, futures, similarities, results,
                   executor_failed, dropped, call, value>>

ServiceInit ==
    /\ op = "service"
    /\ pc = "service"
    /\ ticket_id \in TicketIds
    /\ glpi_tickets \in ListsOf(GlpiPool, MaxCands + 1)
    /\ target_ticket = Ticket(1, tNetFax, tFax)
    /\ tickets = <<>>
    /\ threshold = 0
    /\ max_results = 0
    /\ max_items \in (MaxItemsCap - 1)..MaxItemsCap
    /\ call = NoCall
    /\ value = 0
    /\ args_list = <<>>
    /\ scored = <<>>
    /\ futures = <<>>
    /\ similarities = <<>>
    /\ results = <<>>
    /\ executor_failed = FALSE
    /\ dropped = {}
    /\ GuardIdle
    /\ SessionIdle

ServiceNext ==
    \/ pc = "service" /\ \E thr \in Thresholds : \E k \in 1..MaxK : ServiceFindSimilar(thr, k)
    \/ PrepareFind
    \/ StartPool
    \/ \E i \in 1..Len(futures) : CollectResult(i)
    \/ \E i \in 1..Len(futures) : CollectException(i)
    \/ \E i \in 1..Len(futures) : Hang(i)
    \/ Finish
    \/ FindExecutorFails
    \/ Fallback

ServiceSpec == ServiceInit /\ [][ServiceNext]_vars

(* ---------------------------------------------------------------------- *)
(* SafetyGuard and TicketTools.delete_ticket                               *)
(* ---------------------------------------------------------------------- *)
MIN_TOKEN_LENGTH == 8
MIN_REASON_LENGTH == 10

PROTECTED_OPERATIONS ==
    {"delete_ticket", "delete_asset", "delete_user", "delete_group", "delete_webhook"}

(* values of MCP_SAFETY_GUARD and of MCP_SAFETY_TOKEN in the environment *)
GuardFlags == {"true", "True", "false"}
tokSecret == <<"s", "e", "c", "r", "e", "t", "-", "1">>
tokShort == <<"s", "e", "c", "r", "e", "t">>
EnvTokens == {<<>>, tokShort, tokSecret}

(* SafetyGuard.__init__: the guard is on when the flag says true and the
   token is set and long enough *)
GuardEnabledFor(flag, token) ==
    /\ flag \in {"true", "True"}
    /\ token # <<>>
    /\ Len(token) >= MIN_TOKEN_LENGTH

(* the arguments of the tool: JSON values, no schema is enforced *)
TokenPool == {NoneVal, EmptyStr, ObjVal, Str(tokSecret), Str(tokShort),
              Str(tokSecret \o <<" ">>)}
rLong == <<"c", "l", "e", "a", "n", "u", "p", " ", "i", "t">>
rPadded == <<" ", " ">> \o <<"c", "l", "e", "a", "n", "u", "p">> \o <<" ", "TAB">>
rPaddedLong == <<" ">> \o rLong \o <<" ">>
rBlank == <<" ", " ", " ", " ", " ", " ", " ", " ", " ", " ", " ">>
rNine == <<"c", "l", "e", "a", "n", "u", "p", " ", "i">>
ReasonPool == {NoneVal, EmptyStr, ObjVal, Str(rLong), Str(rPadded), Str(rPaddedLong),
               Str(rBlank), Str(rNine)}
ToolTicketIds == {0, 1, 2}
(* the ticket GLPI holds *)
ExistingTicketIds == {1}

(* SafetyGuard._tokens_match: an AttributeError for a value without encode *)
tokens_match(provided_token) ==
    /\ ~Falsy(provided_token)
    /\ safety_token # <<>>
    /\ provided_token = Str(safety_token)

(* SafetyGuard.require_confirmation: "allowed" for the return of (True, None),
   else the exception that leaves it *)
require_confirmation(operation, confirmation_token, reason) ==
    IF ~guard_enabled THEN "allowed"
    ELSE IF operation \notin PROTECTED_OPERATIONS THEN "allowed"
    ELSE IF Falsy(confirmation_token) THEN "ValidationError"
    ELSE IF NotAStr(confirmation_token) THEN "AttributeError"
    ELSE IF ~tokens_match(confirmation_token) THEN "ValidationError"
    ELSE IF Falsy(reason) THEN "ValidationError"
    ELSE IF NotAStr(reason) THEN "AttributeError"
    ELSE IF Len(Strip(reason.s)) < MIN_REASON_LENGTH THEN "ValidationError"
    ELSE "allowed"

(* TicketTools.delete_ticket up to the await of the service: the id check,
   the guard, and the except clauses that pass ValidationError on and turn
   any other exception into GLPIError(500) *)
DeleteTicketTool(id, confirmationToken, reason) ==
    /\ pc = "tool"
    /\ tool_call' = [ticket_id |-> id, confirmationToken |-> confirmationToken,
                     reason |-> reason]
    /\ LET verdict == require_confirmation("delete_ticket", confirmationToken, reason)
       IN IF id <= 0 THEN pc' = "ValidationError" /\ UNCHANGED service_calls
          ELSE IF verdict = "ValidationError"
          THEN pc' = "ValidationError" /\ UNCHANGED service_calls
          ELSE IF verdict = "AttributeError"
          THEN pc' = "GLPIError" /\ UNCHANGED service_calls
          ELSE pc' = "service_delete" /\ service_calls' = service_calls + 1
    /\ UNCHANGED <<service, session, guard_enabled, safety_token, delete_requests,
                   op, target_ticket, tickets, threshold, max_results, max_items,
                   args_list, scored, futures, similarities, results, executor_failed,
                   dropped, call, value>>

(* TicketService.delete_ticket: get_ticket raises NotFoundError for an
   unknown id, else the DELETE request is sent *)
ServiceDeleteTicket ==
    /\ pc = "service_delete"
    /\ IF tool_call.ticket_id \in ExistingTicketIds
       THEN pc' = "deleted" /\ delete_requests' = delete_requests + 1
       ELSE pc' = "NotFoundError" /\ UNCHANGED delete_requests
    /\ UNCHANGED <<service, session, guard_enabled, safety_token, tool_call, service_calls,
                   op, target_ticket, tickets, threshold, max_results, max_items,
                   args_list, scored, futures, similarities, results, executor_failed,
                   dropped, call, value>>

GuardInit ==
    /\ op = "delete_ticket"
    /\ pc = "tool"
    /\ \E flag \in GuardFlags : \E token \in EnvTokens :
          /\ guard_enabled = GuardEnabledFor(flag, token)
          /\ safety_token = token
    /\ tool_call = NoToolCall
    /\ service_calls = 0
    /\ delete_requests = 0
    /\ ServiceIdle
    /\ target_ticket = Ticket(1, tNetFax, tFax)
    /\ tickets = <<>>
    /\ threshold = 0
    /\ max_results = 0
    /\ max_items = MaxItemsCap
    /\ call = NoCall
    /\ value = 0
    /\ args_list = <<>>
    /\ scored = <<>>
    /\ futures = <<>>
    /\ similarities = <<>>
    /\ results = <<>>
    /\ executor_failed = FALSE
    /\ dropped = {}
    /\ SessionIdle

GuardNext ==
    \/ pc = "tool" /\ \E id \in ToolTicketIds : \E t \in TokenPool : \E r \in ReasonPool :
                        DeleteTicketTool(id, t, r)
    \/ ServiceDeleteTicket

GuardSpec == GuardInit /\ [][GuardNext]_vars

(* ---------------------------------------------------------------------- *)
(* SessionManager: the rate limit                                          *)
(* ---------------------------------------------------------------------- *)
similarity == <<op, target_ticket, tickets, threshold, max_results, max_items, pc,
                args_list, scored, futures, similarities, results, executor_failed,
                dropped, call, value>>

(* the window of line 233, in seconds *)
RateWindow == 60
MaxRateLimit == 2
MaxTime == 125
(* the time between two events *)
Delays == {30, 31}

(* variant: the call is refused only once the count is above the limit *)
check_rate_limit_OffByOne(limits, limit, user_key, t) ==
    LET entry == limits[user_key]
        opened == [count |-> 0, last_reset |-> t, present |-> TRUE]
    IN IF ~entry.present
       THEN [limits |-> [limits EXCEPT ![user_key] = opened], raised |-> FALSE, reset |-> TRUE]
       ELSE IF t - entry.last_reset > RateWindow
       THEN [limits |-> [limits EXCEPT ![user_key] = opened], raised |-> FALSE, reset |-> TRUE]
       ELSE IF entry.count > limit
       THEN [limits |-> limits, raised |-> TRUE, reset |-> FALSE]
       ELSE [limits |-> [limits EXCEPT ![user_key].count = entry.count + 1],
             raised |-> FALSE, reset |-> FALSE]

(* _check_rate_limit at time t: the new dict, whether RateLimitError was
   raised, and whether the key's window was opened or reset *)
check_rate_limit(limits, limit, user_key, t) ==
    LET entry == limits[user_key]
        opened == [count |-> 0, last_reset |-> t, present |-> TRUE]
    IN IF ~entry.present
       THEN [limits |-> [limits EXCEPT ![user_key] = opened], raised |-> FALSE, reset |-> TRUE]
       ELSE IF t - entry.last_reset > RateWindow
       THEN [limits |-> [limits EXCEPT ![user_key] = opened], raised |-> FALSE, reset |-> TRUE]
       ELSE IF entry.count >= limit
       THEN [limits |-> limits, raised |-> TRUE, reset |-> FALSE]
       ELSE [limits |-> [limits EXCEPT ![user_key].count = entry.count + 1],
             raised |-> FALSE, reset |-> FALSE]

(* what an observer of the calls under a key counts: the calls that returned
   since the call that opened or reset the key's window *)
Observed(counts, user_key, outcome) ==
    IF outcome.reset THEN [counts EXCEPT ![user_key] = 0]
    ELSE IF outcome.raised THEN counts
    ELSE [counts EXCEPT ![user_key] = counts[user_key] + 1]

CheckRateLimit(user_key) ==
    /\ pc = "session"
    /\ LET outcome == check_rate_limit(rate_limits, rate_limit_per_minute, user_key, now)
       IN /\ rate_limits' = outcome.limits
          /\ passed' = Observed(passed, user_key, outcome)
          /\ last_check' = [user_key |-> user_key, raised |-> outcome.raised,
                            reset |-> outcome.reset, passed_before |-> passed[user_key]]
    /\ UNCHANGED <<similarity, service, guard, now, client_connected, rate_limit_per_minute,
                   getter>>

(* time passes *)
Tick(d) ==
    /\ pc = "session"
    /\ now + d <= MaxTime
    /\ now' = now + d
    /\ UNCHANGED <<similarity, service, guard, client_connected, limiter, getter>>

(* connect(): the client is created *)
Connect ==
    /\ pc = "session"
    /\ ~client_connected
    /\ client_connected' = TRUE
    /\ UNCHANGED <<similarity, service, guard, now, limiter, getter>>

(* the cache is emptied: what was saved or returned before is owed to no
   later call *)
Forgotten ==
    /\ session_cache' = [ck \in CacheKeys |-> NoEntry]
    /\ saved' = [d \in Dicts |-> NoAnswer]
    /\ requests' = {[r EXCEPT !.owed = FALSE, !.owed_data = NoData, !.due = FALSE] :
                       r \in requests}

(* disconnect(): with a client, the dicts are cleared, so every window and
   every cache entry is gone; the pooled clients stay *)
Disconnect ==
    /\ pc = "session"
    /\ client_connected
    /\ client_connected' = FALSE
    /\ rate_limits' = [k \in UserKeys |-> Absent]
    /\ passed' = [k \in UserKeys |-> 0]
    /\ Forgotten
    /\ UNCHANGED <<similarity, service, guard, now, rate_limit_per_minute, last_check,
                   cache_ttl, user_sessions, fallback_token, glpi_version, calls, last_get>>

SimilarityIdle ==
    /\ target_ticket = Ticket(1, tNetFax, tFax)
    /\ tickets = <<>>
    /\ threshold = 0
    /\ max_results = 0
    /\ max_items = MaxItemsCap
    /\ call = NoCall
    /\ value = 0
    /\ args_list = <<>>
    /\ scored = <<>>
    /\ futures = <<>>
    /\ similarities = <<>>
    /\ results = <<>>
    /\ executor_failed = FALSE
    /\ dropped = {}

RateInit ==
    /\ op = "session"
    /\ pc = "session"
    /\ now = 0
    /\ client_connected = FALSE
    /\ rate_limit_per_minute \in 1..MaxRateLimit
    /\ LimiterIdle
    /\ cache_ttl = 1
    /\ fallback_token = ""
    /\ GetterIdle
    /\ SimilarityIdle
    /\ ServiceIdle
    /\ GuardIdle

RateNext ==
    \/ \E k \in UserKeys : CheckRateLimit(k)
    \/ \E d \in Delays : Tick(d)
    \/ Connect
    \/ Disconnect

RateSpec == RateInit /\ [][RateNext]_vars

(* ---------------------------------------------------------------------- *)
(* SessionManager.get                                                      *)
(* ---------------------------------------------------------------------- *)
MaxGets == 2
(* the limit of the calls of get: the request handler has checked the limit
   under the key of each request before get is called, which opened the
   key's window; the second client has one call left *)
GetRateLimit == 2
CacheTtl == 2
(* the clock of the calls of get stops one second after an entry of the
   first second has expired *)
MaxGetTime == CacheTtl + 1

UserTokens == {"tokA", "tokB"}
(* the requests that call get: the user token of the request and the key
   its calls are counted under *)
Clients ==
    { [token |-> "tokA", user_key |-> "u1"],
      [token |-> "tokB", user_key |-> "u2"],
      [token |-> "", user_key |-> "u1"] }

(* get_current_user_token: the token of the request, else the one of .env *)
get_current_user_token(token) == IF token # "" THEN token ELSE fallback_token

(* variant: an entry is still served when exactly cache_ttl seconds old *)
FreshEntry_Inclusive(entry, t) == entry.present /\ t - entry.timestamp <= cache_ttl

(* the test of _get_from_cache *)
FreshEntry(entry, t) == entry.present /\ t - entry.timestamp < cache_ttl

(* what GLPI answers to the session of a token *)
Response(token) == IF glpi_version = 0 THEN NoData ELSE [v |-> glpi_version, by |-> token]

(* the record of a call that ended *)
Ended(r, outcome, data, cached, due_data) ==
    [token |-> r.token, use_cache |-> r.use_cache,
     outcome |-> outcome, data |-> data, cached |-> cached, fetches |-> r.fetches,
     inits |-> r.inits, owed |-> r.owed, owed_data |-> IF r.owed THEN r.owed_data ELSE NoData,
     due |-> r.due, due_data |-> IF r.due THEN due_data ELSE NoData]

(* lines 291-306, once the client of the request is at hand: the rate limit,
   the cache, and on a miss the GET that is sent; passed and last_check
   observe the checks of the request handler only; due tells whether the
   lookup happens less than cache_ttl seconds after data was saved for the
   params and not cleared since *)
Proceed(r, rest) ==
    LET outcome == check_rate_limit(rate_limits, rate_limit_per_minute, r.user_key, now)
        ck == get_cache_key(Endpoint, r.params)
        entry == session_cache[ck]
        found == r.use_cache /\ FreshEntry(entry, now)
        d == SameParams(r.params)
        due == /\ r.use_cache /\ saved[d].present /\ saved[d].data.v # 0
               /\ now - saved[d].at < cache_ttl
        looked == [r EXCEPT !.due = due]
    IN /\ rate_limits' = outcome.limits
       /\ UNCHANGED <<passed, last_check>>
       /\ IF outcome.raised
          THEN /\ last_get' = Ended(looked, "RateLimitError", NoData, FALSE, saved[d].data)
               /\ requests' = rest
               /\ UNCHANGED session_cache
          ELSE IF found /\ entry.data.v # 0
          THEN /\ last_get' = Ended(looked, "data", entry.data, TRUE, saved[d].data)
               /\ requests' = rest
               /\ UNCHANGED session_cache
          ELSE /\ session_cache' =
                    IF r.use_cache /\ entry.present /\ ~found
                    THEN [session_cache EXCEPT ![ck] = NoEntry] ELSE session_cache
               /\ requests' = rest \cup {[looked EXCEPT !.pc = "fetch", !.fetches = 1]}
               /\ last_get' = NoGet

(* the calls of get of this model start after connect() of the application's
   start-up; get is called: lines 285-289, and with a pooled client the lines up to
   the GET; a token without a client has one created, which sends initSession *)
GetBegin(c, params, use_cache) ==
    /\ pc = "session"
    /\ calls < MaxGets
    /\ calls' = calls + 1
    /\ LET token == get_current_user_token(c.token)
           d == SameParams(params)
           r == [id |-> calls + 1, token |-> token, user_key |-> c.user_key,
                 params |-> params, use_cache |-> use_cache, pc |-> "begin",
                 fetches |-> 0, inits |-> 0,
                 owed |-> /\ use_cache /\ saved[d].present
                          /\ now - saved[d].at < cache_ttl,
                 owed_data |-> IF use_cache /\ saved[d].present
                                  /\ now - saved[d].at < cache_ttl
                               THEN saved[d].data ELSE NoData,
                 due |-> FALSE]
       IN IF token = ""
          THEN /\ last_get' = Ended(r, "AuthenticationError", NoData, FALSE, NoData)
               /\ UNCHANGED <<limiter, session_cache, requests>>
          ELSE IF token \in user_sessions
          THEN /\ Proceed(r, requests)
               /\ UNCHANGED rate_limit_per_minute
          ELSE /\ requests' = requests \cup {[r EXCEPT !.pc = "init_session", !.inits = 1]}
               /\ last_get' = NoGet
               /\ UNCHANGED <<limiter, session_cache>>
    /\ UNCHANGED <<similarity, service, guard, now, client_connected, cache_ttl,
                   user_sessions, fallback_token, glpi_version, saved>>

(* initSession of the new client is over, with or without a session token:
   the client is pooled (lines 167-184) and get goes on *)
InitDone(r) ==
    /\ pc = "session"
    /\ r \in requests /\ r.pc = "init_session"
    /\ user_sessions' = user_sessions \cup {r.token}
    /\ Proceed(r, requests \ {r})
    /\ UNCHANGED <<similarity, service, guard, now, client_connected, rate_limit_per_minute,
                   cache_ttl, fallback_token, glpi_version, calls, saved>>

(* the answer to the GET arrives: lines 306-341 *)
FetchDone(r, status) ==
    /\ pc = "session"
    /\ r \in requests /\ r.pc \in {"fetch", "refetch"}
    /\ LET rest == requests \ {r}
           ck == get_cache_key(Endpoint, r.params)
           d == SameParams(r.params)
           data == Response(r.token)
       IN IF status = 401 /\ r.pc = "fetch"
          THEN /\ user_sessions' = user_sessions \ {r.token}
               /\ requests' = rest \cup {[r EXCEPT !.pc = "reinit", !.inits = r.inits + 1]}
               /\ last_get' = NoGet
               /\ UNCHANGED <<session_cache, saved>>
          ELSE IF status = 200
          THEN /\ last_get' = Ended(r, "data", data, FALSE, NoData)
               /\ requests' = rest
               /\ IF r.use_cache
                  THEN /\ session_cache' = [session_cache EXCEPT
                              ![ck] = [data |-> data, timestamp |-> now, present |-> TRUE]]
                       /\ saved' = [saved EXCEPT
                              ![d] = [data |-> data, at |-> now, present |-> TRUE]]
                  ELSE UNCHANGED <<session_cache, saved>>
               /\ UNCHANGED user_sessions
          ELSE /\ last_get' = Ended(r, IF status = 401 THEN "AuthenticationError"
                                       ELSE "GLPIError", NoData, FALSE, NoData)
               /\ requests' = rest
               /\ UNCHANGED <<session_cache, user_sessions, saved>>
    /\ UNCHANGED <<similarity, service, guard, now, client_connected, limiter, cache_ttl,
                   fallback_token, glpi_version, calls>>

(* after a 401 the client of the token was dropped and a new one created:
   its initSession is over, the GET is sent once more (lines 309-319) *)
ReinitDone(r) ==
    /\ pc = "session"
    /\ r \in requests /\ r.pc = "reinit"
    /\ user_sessions' = user_sessions \cup {r.token}
    /\ requests' = (requests \ {r}) \cup {[r EXCEPT !.pc = "refetch", !.fetches = r.fetches + 1]}
    /\ last_get' = NoGet
    /\ UNCHANGED <<similarity, service, guard, now, client_connected, limiter, session_cache,
                   cache_ttl, fallback_token, glpi_version, calls, saved>>

(* clear_cache() *)
ClearCache ==
    /\ pc = "session"
    /\ Forgotten
    /\ last_get' = NoGet
    /\ UNCHANGED <<similarity, service, guard, now, client_connected, limiter, cache_ttl,
                   user_sessions, fallback_token, glpi_version, calls>>

(* the data behind the endpoint changes in GLPI *)
GlpiChanges ==
    /\ pc = "session"
    /\ glpi_version = 1
    /\ glpi_version' = 2
    /\ last_get' = NoGet
    /\ UNCHANGED <<similarity, service, guard, now, client_connected, limiter, session_cache,
                   cache_ttl, user_sessions, fallback_token, requests, calls, saved>>

(* a second passes between two steps of the calls of get *)
GetTick ==
    /\ pc = "session"
    /\ now < MaxGetTime
    /\ now' = now + 1
    /\ last_get' = NoGet
    /\ UNCHANGED <<similarity, service, guard, client_connected, limiter, session_cache,
                   cache_ttl, user_sessions, fallback_token, glpi_version, requests, calls,
                   saved>>

GetInit ==
    /\ op = "session"
    /\ pc = "session"
    /\ now = 0
    /\ client_connected = TRUE
    /\ rate_limit_per_minute = GetRateLimit
    /\ rate_limits = [k \in UserKeys |->
                         [count |-> IF k = "u1" THEN 0 ELSE GetRateLimit - 1,
                          last_reset |-> 0, present |-> TRUE]]
    /\ passed = [k \in UserKeys |-> 0]
    /\ last_check = NoCheck
    /\ cache_ttl = CacheTtl
    /\ fallback_token \in {"", "tokA"}
    /\ session_cache = [ck \in CacheKeys |-> NoEntry]
    /\ user_sessions = {}
    /\ glpi_version \in 0..1
    /\ requests = {}
    /\ calls = 0
    /\ last_get = NoGet
    /\ saved = [d \in Dicts |-> NoAnswer]
    /\ SimilarityIdle
    /\ ServiceIdle
    /\ GuardIdle

GetNext ==
    \/ \E c \in Clients : \E p \in ParamsPool : \E u \in BOOLEAN : GetBegin(c, p, u)
    \/ \E r \in requests : InitDone(r)
    \/ \E r \in requests : \E status \in {200, 401, 500} : FetchDone(r, status)
    \/ \E r \in requests : ReinitDone(r)
    \/ ClearCache
    \/ GlpiChanges
    \/ GetTick

GetSpec == GetInit /\ [][GetNext]_vars

Next ==
    \/ pc = "text" /\ \E t1, t2 \in TextPool : \E a, b \in TitlePool : CallCombined(t1, t2, a, b)
    \/ pc = "text" /\ \E t \in NormalizePool : CallNormalize(t)
    \/ pc = "text" /\ \E t \in KeywordPool : CallKeywords(t)
    \/ pc = "text" /\ \E t \in KeywordPool : \E m \in MinLengths : CallKeywordsMinLength(t, m)
    \/ pc = "text" /\ \E set1, set2 \in KeywordSets : CallJaccard(set1, set2)
    \/ pc = "text" /\ \E t1, t2 \in MetricPool : CallCosine(t1, t2)
    \/ pc = "text" /\ \E t1, t2 \in MetricPool \ {ObjVal} : CallLevenshteinDistance(t1, t2)
    \/ pc = "text" /\ \E t1, t2 \in MetricPool : CallLevenshtein(t1, t2)
    \/ pc = "text" /\ \E t1, t2 \in MetricPool : CallTfidf(t1, t2)
    \/ pc = "text" /\ \E t1, t2 \in MetricPool : CallSequence(t1, t2)
    \/ PrepareFind
    \/ PrepareMatrix
    \/ StartPool
    \/ \E i \in 1..Len(futures) : CollectResult(i)
    \/ \E i \in 1..Len(futures) : CollectException(i)
    \/ \E i \in 1..Len(futures) : Hang(i)
    \/ Finish
    \/ FindExecutorFails
    \/ Fallback
    \/ MatrixExecutorFails

Spec == Init /\ [][Next]_vars

(* One call of find_similar_tickets on well-formed candidates, with weak
   fairness: once the pool is to be started, every step that can be taken is
   eventually taken, so tasks that are not stuck complete and the call goes
   on whenever it can *)
LiveInit ==
    /\ op = "find"
    /\ target_ticket \in TargetPool
    /\ tickets \in ListsOf({t \in CandidatePool : t.dict}, MaxCands)
    /\ threshold = 30 * Scale
    /\ max_results = MaxK
    /\ max_items = MaxItemsCap
    /\ pc = "start"
    /\ call = NoCall
    /\ value = 0
    /\ args_list = <<>>
    /\ scored = <<>>
    /\ futures = <<>>
    /\ similarities = <<>>
    /\ results = <<>>
    /\ executor_failed = FALSE
    /\ dropped = {}
    /\ OutsideIdle

LiveNext ==
    \/ PrepareFind
    \/ StartPool
    \/ \E i \in 1..Len(futures) : CollectResult(i)
    \/ \E i \in 1..Len(futures) : CollectException(i)
    \/ \E i \in 1..Len(futures) : Hang(i)
    \/ Finish
    \/ FindExecutorFails
    \/ Fallback

(* the steps after the arguments are prepared: the ones that wait for the
   pool, for a task or for the scheduler *)
Running == pc # "start" /\ LiveNext

LiveSpec == LiveInit /\ [][LiveNext]_vars /\ WF_vars(Running)

(* ---------------------------------------------------------------------- *)
(* Properties                                                              *)
(* ---------------------------------------------------------------------- *)
Returns == pc = "done" /\ op = "find"

(* the records of the scored candidates that pass the threshold, in input order *)
PassingInOrder == SequentialPass(<<>>, scored, threshold)

(* C1: every entry of the list returned by find_similar_tickets has
   combined >= threshold, on the parallel and on the sequential path *)
AboveThreshold ==
    Returns => \A i \in 1..Len(results) : results[i].combined >= threshold

AboveThresholdWitness ==
    /\ Returns /\ executor_failed /\ threshold > 0
    /\ results # <<>>
    /\ \E i \in 1..Len(scored) : ~scored[i].error /\ scored[i].combined < threshold

(* C2: in every list returned by find_similar_tickets or by
   calculate_similarity_matrix, each entry has a combined score that is at
   least the score of the next entry *)
DescendingOrder ==
    pc = "done" =>
        \A i \in 1..(Len(results) - 1) : results[i].combined >= results[i + 1].combined

DescendingOrderWitness ==
    /\ Returns /\ Len(tickets) = 2 /\ Len(results) = 2
    /\ results[1].combined > results[2].combined
    /\ results[1].id2 = tickets[2].id /\ results[2].id2 = tickets[1].id

(* C3: for max_results = k >= 0 the list returned by find_similar_tickets has
   at most k entries; they are the first k of the collected entries in
   descending order, so no entry that was cut scores higher than a returned
   one; and when no task failed the collected entries are exactly the
   candidates that pass the threshold *)
TopK ==
    Returns =>
        /\ Len(results) <= max_results
        /\ Len(results) = Min2(max_results, Len(similarities))
        /\ results = SubSeq(similarities, 1, Len(results))
        /\ \A i \in 1..Len(results) : \A j \in (Len(results) + 1)..Len(similarities) :
               results[i].combined >= similarities[j].combined
        /\ (~executor_failed /\ dropped = {}) =>
               /\ Len(similarities) = Len(PassingInOrder)
               /\ \A i \in 1..Len(scored) :
                      Count(similarities, scored[i]) = Count(PassingInOrder, scored[i])

TopKWitness ==
    /\ Returns /\ max_results > 0
    /\ Len(similarities) > max_results
    /\ Len(results) = max_results
    /\ similarities[Len(similarities)].combined < results[1].combined

(* C4: for fixed inputs the list returned by find_similar_tickets is the same
   for every order of completion of the tasks: descending by combined, equal
   scores in the order of the candidates in the input list *)
CompletionOrderIrrelevant ==
    (Returns /\ ~executor_failed /\ dropped = {}) => results = Returned(PassingInOrder)

(* C5: when exactly one candidate of the batch is malformed or makes its
   scoring raise, find_similar_tickets returns normally and the result holds
   the other candidates that reach the threshold, up to max_results *)
Malformed(t) ==
    \/ ~t.dict
    \/ SingleRaises(FindArgs(target_ticket, <<t>>)[1])

OneMalformed ==
    Cardinality({i \in 1..Len(Limited(tickets)) : Malformed(Limited(tickets)[i])}) = 1

IsolationUnderFailure ==
    (op = "find" /\ OneMalformed /\ pc \in {"done", "raised"}) =>
        /\ pc = "done"
        /\ (~executor_failed /\ dropped = {}) =>
               Len(results) = Min2(max_results, Len(PassingInOrder))

(* C6: when the executor fails (at creation, at submission, or while the
   results are collected) find_similar_tickets returns a list that a fully
   successful parallel run returns for the same inputs *)
Perms(n) == {p \in [1..n -> 1..n] : \A i, j \in 1..n : i # j => p[i] # p[j]}

ParallelOutcomes ==
    {Returned(SequentialPass(<<>>, [i \in 1..Len(scored) |-> scored[p[i]]], threshold)) :
        p \in Perms(Len(scored))}

PoolBroke == Len(futures) >= 2 /\ dropped = 1..Len(futures)

FallbackEquivalent ==
    (Returns /\ (executor_failed \/ PoolBroke)) => results \in ParallelOutcomes

(* C7: when one scoring task never finishes, find_similar_tickets still
   eventually returns *)
StuckTaskStillReturns ==
    (op = "find" /\ \E i \in 1..Len(futures) : futures[i] = "hung") ~> (pc = "done")

(* C8: for non-empty texts combined_similarity is
   min(1.0, 0.30*seq + 0.30*cos + 0.25*jac + 0.15*titleSim), titleSim being the
   sequence similarity of the titles when both are non-empty and 0.0
   otherwise; the combined field of a result record is that value of the
   record's own sequence, cosine and jaccard fields *)
TitleSimOf(a, b) == IF ~Falsy(a) /\ ~Falsy(b) THEN sequence_similarity(a, b) ELSE 0

CombinedIsWeightedSum ==
    /\ (pc = "returned" /\ ~call.raised /\ ~Falsy(call.text1) /\ ~Falsy(call.text2)) =>
           value = Min2(100 * Scale,
                        30 * sequence_similarity(call.text1, call.text2)
                        + 30 * cosine_similarity(call.text1, call.text2)
                        + 25 * jaccard_similarity(extract_keywords(call.text1, 3),
                                                  extract_keywords(call.text2, 3))
                        + 15 * TitleSimOf(call.title1, call.title2))
    /\ (pc = "pool") =>
           \A i \in 1..Len(scored) :
               (~scored[i].error /\ ~Falsy(args_list[i][2]) /\ ~Falsy(args_list[i][5])) =>
                   scored[i].combined =
                       Min2(100 * Scale,
                            30 * scored[i].sequence + 30 * scored[i].cosine
                            + 25 * scored[i].jaccard
                            + 15 * TitleSimOf(args_list[i][3], args_list[i][6]))

CombinedIsWeightedSumWitness ==
    /\ pc = "returned" /\ ~call.raised
    /\ ~Falsy(call.text1) /\ ~Falsy(call.text2)
    /\ ~Falsy(call.title1) /\ ~Falsy(call.title2)
    /\ call.text1 # call.text2
    /\ value > 55 * Scale /\ value < 100 * Scale

(* C9: combined_similarity returns a value between 0.0 and 1.0 for all texts
   and titles, empty, None and punctuation-only ones included *)
CombinedBounds ==
    /\ (pc = "returned" /\ ~call.raised) => (0 <= value /\ value <= 100 * Scale)
    /\ (pc = "pool") =>
           \A i \in 1..Len(scored) :
               0 <= scored[i].combined /\ scored[i].combined <= 100 * Scale

CombinedBoundsWitness ==
    /\ pc = "returned" /\ ~call.raised
    /\ call.text1 = tPunct /\ call.text2 = tBangs
    /\ call.title1 = tFax /\ call.title2 = tFax
    /\ value = 70 * Scale

(* C10: when text1 or text2 is empty combined_similarity returns 0.0 whatever
   the titles are, without consulting them, and a candidate with empty
   content is never returned by find_similar_tickets when threshold > 0 *)
ShortCircuit ==
    /\ (pc = "returned" /\ (Falsy(call.text1) \/ Falsy(call.text2))) =>
           (~call.raised /\ value = 0)
    /\ (Returns /\ threshold > 0) =>
           \A i \in 1..Len(results) : \A j \in 1..Len(tickets) :
               (tickets[j].dict /\ Falsy(tickets[j].content)) =>
                   results[i].id2 # tickets[j].id

ShortCircuitWitness ==
    /\ pc = "returned"
    /\ ~Falsy(call.text1) /\ Falsy(call.text2)
    /\ call.title1 = tFax /\ call.title2 = ObjVal
    /\ value = 0

(* C11: for a fixed target, candidate list and max_results, every list that a
   run of find_similar_tickets returns with a threshold t_high holds only ids
   that a run with a threshold t_low <= t_high returns: here the run at t_low
   is the one that was executed, and the runs at t_high are all the fully
   successful parallel runs on the same scored candidates *)
IdsOf(l) == {l[i].id2 : i \in 1..Len(l)}

OutcomesAt(thr) ==
    {Returned(SequentialPass(<<>>, [i \in 1..Len(scored) |-> scored[p[i]]], thr)) :
        p \in Perms(Len(scored))}

ThresholdMonotone ==
    (Returns /\ ~executor_failed /\ dropped = {}) =>
        \A t \in Thresholds :
            t >= threshold => \A o \in OutcomesAt(t) : IdsOf(o) \subseteq IdsOf(results)

(* C12: with an empty candidate list find_similar_tickets returns [] at once,
   before any argument is built, any task scored or any pool created; when no
   candidate reaches the threshold it returns [] as well; and the only call
   that raises is one whose list holds a candidate that is not a dict *)
EmptyIsNormal ==
    /\ (op = "find" /\ tickets = <<>> /\ pc # "start") =>
           /\ pc = "done" /\ results = <<>>
           /\ args_list = <<>> /\ scored = <<>> /\ futures = <<>>
           /\ ~executor_failed
    /\ (Returns /\ PassingInOrder = <<>>) => results = <<>>
    /\ (op = "find" /\ pc = "raised") =>
           \E i \in 1..Len(Limited(tickets)) : ~Limited(tickets)[i].dict

EmptyIsNormalWitness ==
    /\ Returns /\ ~executor_failed /\ dropped = {}
    /\ tickets # <<>> /\ Len(futures) = Len(tickets)
    /\ PassingInOrder = <<>>
    /\ results = <<>>

(* C13: find_similar_tickets builds one task per candidate among the first
   max_items of the list, in input order, so never more than max_items tasks;
   every returned id is the id of one of those candidates; and the call does
   not raise because of the cut: a candidate behind the cap is never looked
   at, so only a candidate among the first max_items that is not a dict makes
   the call raise *)
CapRespected ==
    LET n == Min2(max_items, Len(tickets))
    IN /\ op = "find" =>
              /\ Len(args_list) <= max_items
              /\ Len(scored) <= max_items
              /\ Len(futures) <= max_items
       /\ (op = "find" /\ pc \notin {"start", "raised"} /\ tickets # <<>>) =>
              /\ Len(args_list) = n
              /\ \A i \in 1..n : args_list[i][4] = tickets[i].id
                                 /\ args_list[i][5] = tickets[i].content
       /\ Returns =>
              \A i \in 1..Len(results) : \E j \in 1..n : results[i].id2 = tickets[j].id
       /\ (op = "find" /\ pc = "raised") => \E j \in 1..n : ~tickets[j].dict

CapRespectedWitness ==
    /\ Returns /\ ~executor_failed /\ dropped = {}
    /\ Len(tickets) > max_items
    /\ Len(futures) = max_items
    /\ results # <<>>
    /\ ~tickets[Len(tickets)].dict

(* C14: normalize_text is idempotent: normalizing the string it returned
   gives that string again *)
NormalizeIdempotent ==
    (pc = "computed" /\ call.fn = "normalize_text" /\ ~call.raised) =>
        normalize_text(Str(value)) = value

NormalizeIdempotentWitness ==
    /\ pc = "computed" /\ call.fn = "normalize_text" /\ ~call.raised
    /\ call.text1 = tDash
    /\ value = tNetFax.s

(* C15: the string returned by normalize_text holds only lowercase (or
   caseless) letters, digits and single spaces: no uppercase letter, no
   combining mark, no tab, no punctuation, no underscore, no two spaces in a
   row and no space at either end *)
NormalizedCharset ==
    (pc = "computed" /\ call.fn = "normalize_text" /\ ~call.raised) =>
        /\ \A i \in 1..Len(value) : value[i] \in LowerLetters \cup Digits \cup Jamo \cup {" "}
        /\ \A i \in 1..(Len(value) - 1) : ~(value[i] = " " /\ value[i + 1] = " ")
        /\ value # <<>> => (value[1] # " " /\ value[Len(value)] # " ")

(* C16: jaccard_similarity(A, B) is |A n B| / |A u B| (here rounded down to a
   multiple of 1/Scale) for non-empty sets, 1.0 for two empty sets and 0.0
   when exactly one is empty; so 1.0 for equal non-empty sets and 0.0 for
   disjoint non-empty sets *)
JaccardIsRatio ==
    (pc = "computed" /\ call.fn = "jaccard_similarity") =>
        LET A == call.set1
            B == call.set2
            inter == Cardinality(A \cap B)
            union == Cardinality(A \cup B)
        IN /\ ~call.raised
           /\ (A # {} /\ B # {}) =>
                  (value * union <= Scale * inter /\ Scale * inter < (value + 1) * union)
           /\ (A = {} /\ B = {}) => value = Scale
           /\ ((A = {}) # (B = {})) => value = 0
           /\ (A = B /\ A # {}) => value = Scale
           /\ (A # {} /\ B # {} /\ A \cap B = {}) => value = 0

JaccardIsRatioWitness ==
    /\ pc = "computed" /\ call.fn = "jaccard_similarity"
    /\ call.set1 = {<<"n", "e", "t">>, <<"f", "a", "x">>}
    /\ call.set2 = {<<"n", "e", "t">>, <<"t", "o", "p">>}
    /\ value = Scale \div 3

(* C17 as stated: for every non-empty text t, cosine_similarity(t, t) is 1.0 *)
CosineSelfIsOne ==
    (pc = "computed" /\ call.fn = "cosine_similarity" /\ ~call.raised
     /\ call.text1 = call.text2 /\ ~Falsy(call.text1)) =>
        value = Scale

(* C17 as amended: cosine_similarity(t, t) is 1.0 for every text t that holds
   at least one word once normalized, and 0.0 for a text that holds none *)
CosineSelfIsOneForWords ==
    (pc = "computed" /\ call.fn = "cosine_similarity" /\ ~call.raised
     /\ call.text1 = call.text2) =>
        IF Falsy(call.text1) \/ Split(normalize_text(call.text1)) = <<>>
        THEN value = 0
        ELSE value = Scale

CosineSelfIsOneForWordsWitness ==
    /\ pc = "computed" /\ call.fn = "cosine_similarity" /\ ~call.raised
    /\ call.text1 = tNetFaxLoud /\ call.text2 = tNetFaxLoud
    /\ value = Scale

(* C18: levenshtein_similarity(text1, text2) is 1 - d / max(len1, len2), d
   being the unit-cost edit distance of the two normalized texts and len1,
   len2 the lengths of the normalized texts; 1.0 when both texts are empty
   and 0.0 when exactly one is *)
EditDistance(a, b) ==
    LET D[i \in 0..Len(a), j \in 0..Len(b)] ==
            IF i = 0 THEN j
            ELSE IF j = 0 THEN i
            ELSE Min2(Min2(D[i - 1, j] + 1, D[i, j - 1] + 1),
                      D[i - 1, j - 1] + (IF a[i] = b[j] THEN 0 ELSE 1))
    IN D[Len(a), Len(b)]

LevenshteinOverNormalized ==
    (pc = "computed" /\ call.fn = "levenshtein_similarity" /\ ~call.raised) =>
        LET n1 == normalize_text(call.text1)
            n2 == normalize_text(call.text2)
            m == Max2(Len(n1), Len(n2))
        IN IF Falsy(call.text1) /\ Falsy(call.text2) THEN value = Scale
           ELSE IF Falsy(call.text1) \/ Falsy(call.text2) THEN value = 0
           ELSE IF m = 0 THEN value = Scale
           ELSE /\ value * m <= Scale * (m - EditDistance(n1, n2))
                /\ Scale * (m - EditDistance(n1, n2)) < (value + 1) * m

(* C19: sequence_similarity, cosine_similarity, jaccard_similarity and
   levenshtein_similarity return a value between 0.0 and 1.0 for every pair
   of arguments *)
MetricsInUnitInterval ==
    (pc = "computed" /\ ~call.raised
     /\ call.fn \in {"sequence_similarity", "cosine_similarity", "jaccard_similarity",
                     "levenshtein_similarity"}) =>
        (0 <= value /\ value <= Scale)

(* C20: each of normalize_text, extract_keywords, cosine_similarity,
   levenshtein_distance, levenshtein_similarity, tfidf_similarity,
   sequence_similarity and combined_similarity returns for a None text (or
   title) what it returns for the empty string with the same other
   arguments, and none of them raises when a text is None or empty *)
ValueOf(fn, t1, t2) ==
    CASE fn = "normalize_text" -> normalize_text(t1)
      [] fn = "extract_keywords" -> extract_keywords(t1, min_length_default)
      [] fn = "cosine_similarity" -> cosine_similarity(t1, t2)
      [] fn = "levenshtein_distance" -> levenshtein_distance(t1, t2)
      [] fn = "levenshtein_similarity" -> levenshtein_similarity(t1, t2)
      [] fn = "tfidf_similarity" -> tfidf_similarity(t1, t2)
      [] fn = "sequence_similarity" -> sequence_similarity(t1, t2)

NoneAsEmpty(t) == IF t = NoneVal THEN EmptyStr ELSE t

Degenerate(t) == t = NoneVal \/ t = EmptyStr

NoneIsEmpty ==
    /\ (pc = "computed" /\ call.fn \in {"normalize_text", "extract_keywords"}) =>
           /\ Degenerate(call.text1) => ~call.raised
           /\ call.text1 = NoneVal => value = ValueOf(call.fn, EmptyStr, call.text2)
    /\ (pc = "computed" /\ call.fn \in {"cosine_similarity", "levenshtein_distance",
                                         "levenshtein_similarity", "tfidf_similarity",
                                         "sequence_similarity"}) =>
           /\ (Degenerate(call.text1) \/ Degenerate(call.text2)) => ~call.raised
           /\ (call.text1 = NoneVal \/ call.text2 = NoneVal) =>
                  value = ValueOf(call.fn, NoneAsEmpty(call.text1), NoneAsEmpty(call.text2))
    /\ pc = "returned" =>
           /\ (Degenerate(call.text1) \/ Degenerate(call.text2)) => ~call.raised
           /\ (call.text1 = NoneVal \/ call.text2 = NoneVal) =>
                  value = combined_similarity(NoneAsEmpty(call.text1), NoneAsEmpty(call.text2),
                                              call.title1, call.title2)
           /\ (call.text1.k = "str" /\ call.text2.k = "str"
               /\ (Degenerate(call.title1) \/ Degenerate(call.title2))) =>
                  /\ ~call.raised
                  /\ value = combined_similarity(call.text1, call.text2,
                                                 NoneAsEmpty(call.title1),
                                                 NoneAsEmpty(call.title2))

NoneIsEmptyWitness ==
    /\ pc = "computed" /\ call.fn = "levenshtein_distance" /\ ~call.raised
    /\ call.text1 = NoneVal /\ call.text2 = tNetFaxLoud
    /\ value = 9

(* ---------------------------------------------------------------------- *)
(* C22: calculate_similarity_matrix scores each unordered pair of distinct  *)
(* positions of the capped list exactly once: n*(n-1)/2 tasks for n         *)
(* tickets, no ticket paired with itself, no pair in both orders; with      *)
(* fewer than 2 tickets it returns the empty list. The tickets of a list    *)
(* have distinct ids, so a position is named by the id found there.         *)
(* ---------------------------------------------------------------------- *)
TasksFor(a, b) == {k \in 1..Len(args_list) : args_list[k][1] = a /\ args_list[k][4] = b}

MatrixPairsOnce ==
    (op = "matrix" /\ pc \in {"pool", "collect", "done"}) =>
        LET l == Limited(tickets)
            n == Len(l)
        IN IF Len(tickets) < 2
           THEN pc = "done" /\ args_list = <<>> /\ results = <<>>
           ELSE /\ 2 * Len(args_list) = n * (n - 1)
                /\ \A i, j \in 1..n :
                      /\ i < j => Cardinality(TasksFor(l[i].id, l[j].id)) = 1
                      /\ i >= j => TasksFor(l[i].id, l[j].id) = {}

MatrixPairsOnceWitness ==
    /\ op = "matrix" /\ pc = "done" /\ ~executor_failed /\ dropped = {}
    /\ Len(Limited(tickets)) = 2 /\ Len(args_list) = 1 /\ Len(results) = 1

(* ---------------------------------------------------------------------- *)
(* C23: when the executor of calculate_similarity_matrix cannot be created  *)
(* or fails, the pairs are scored sequentially and the call returns a list  *)
(* that a fully successful parallel run returns for the same inputs         *)
(* ---------------------------------------------------------------------- *)
MatrixParallelOutcomes ==
    {SortDesc(SequentialPass(<<>>, [i \in 1..Len(scored) |-> scored[p[i]]], threshold)) :
        p \in Perms(Len(scored))}

MatrixFallbackEquivalent ==
    (op = "matrix" /\ pc = "done" /\ executor_failed) => results \in MatrixParallelOutcomes

(* ---------------------------------------------------------------------- *)
(* C27: the candidates of a call have pairwise distinct ids, and the list   *)
(* returned by find_similar_tickets holds at most one entry per candidate,  *)
(* on the parallel path, on the sequential fallback and when the fallback   *)
(* starts after some results were collected                                 *)
(* ---------------------------------------------------------------------- *)
OneEntryPerCandidate ==
    Returns => \A i, j \in 1..Len(results) : i # j => results[i].id2 # results[j].id2

(* ---------------------------------------------------------------------- *)
(* C28: in every record returned by find_similar_tickets, id1 is the id of  *)
(* the target ticket and id2 is the id of a candidate of the capped list    *)
(* ---------------------------------------------------------------------- *)
RecordNamesThePair ==
    Returns =>
        \A i \in 1..Len(results) :
            /\ results[i].id1 = target_ticket.id
            /\ \E j \in 1..Len(Limited(tickets)) : results[i].id2 = Limited(tickets)[j].id

(* ---------------------------------------------------------------------- *)
(* C29: extract_keywords(text, min_length) returns exactly the tokens of    *)
(* normalize_text(text), split on whitespace, that have at least min_length *)
(* characters and are not stop words; and for every entry w of the          *)
(* stop-word list, the accented entries included, extract_keywords(w) is    *)
(* the empty set                                                            *)
(* ---------------------------------------------------------------------- *)
KeptTokens(t, min_length) ==
    {w \in Range(Split(normalize_text(t))) : Len(w) >= min_length /\ w \notin stop_words}

KeywordsOfStopWords ==
    /\ (pc = "computed" /\ call.fn = "extract_keywords(text, min_length)" /\ ~call.raised)
          => value = KeptTokens(call.text1, call.min_length)
    /\ (pc = "computed" /\ call.fn = "extract_keywords" /\ ~call.raised)
          => /\ value = KeptTokens(call.text1, min_length_default)
             /\ call.text1 \in StopWordTexts => value = {}

(* ---------------------------------------------------------------------- *)
(* C21: TicketService.find_similar_tickets(ticket_id) passes no candidate   *)
(* whose id equals ticket_id to the similarity service, and no record of    *)
(* the list it returns is the record of a candidate with that id            *)
(* ---------------------------------------------------------------------- *)
ReferenceExcluded ==
    (op = "find" /\ ticket_id > 0) =>
        /\ \A i \in 1..Len(tickets) : tickets[i].id # ticket_id
        /\ \A i \in 1..Len(args_list) : args_list[i][4] # ticket_id
        /\ pc = "done" =>
              \A i \in 1..Len(results) : results[i].id2 # ticket_id

ReferenceExcludedWitness ==
    /\ op = "find" /\ pc = "done" /\ results # <<>>
    /\ \E i \in 1..Len(glpi_tickets) : glpi_tickets[i].id = ticket_id
    /\ \E i \in 1..Len(glpi_tickets) :
          /\ glpi_tickets[i].id # ticket_id
          /\ glpi_tickets[i].content = target_ticket.content

(* ---------------------------------------------------------------------- *)
(* C26: with the Safety Guard enabled, the delete_ticket tool calls         *)
(* ticket_service.delete_ticket only if confirmationToken equals            *)
(* MCP_SAFETY_TOKEN and the trimmed reason has at least 10 characters; in   *)
(* every other case it raises ValidationError and sends no delete request   *)
(* ---------------------------------------------------------------------- *)
Confirmed(c) ==
    /\ c.confirmationToken = Str(safety_token)
    /\ c.reason.k = "str"
    /\ Len(Strip(c.reason.s)) >= MIN_REASON_LENGTH

ToolCalled == op = "delete_ticket" /\ pc # "tool"

(* the service is called, and a delete request sent, only after a confirmation *)
DeleteOnlyConfirmed ==
    (ToolCalled /\ guard_enabled /\ (service_calls > 0 \/ delete_requests > 0))
        => Confirmed(tool_call)

GuardedDelete ==
    /\ DeleteOnlyConfirmed
    /\ (ToolCalled /\ guard_enabled /\ ~Confirmed(tool_call))
          => (pc = "ValidationError" /\ delete_requests = 0)

(* ---------------------------------------------------------------------- *)
(* C24: for each rate-limit key, between two resets of its 60-second        *)
(* window at most rate_limit_per_minute calls of _check_rate_limit return;  *)
(* every further call in that window raises RateLimitError; and a call      *)
(* under another key neither uses up nor resets this key's budget           *)
(* ---------------------------------------------------------------------- *)
WithinBudget == \A k \in UserKeys : passed[k] <= rate_limit_per_minute

FurtherCallsRaise ==
    (last_check.user_key # "" /\ ~last_check.reset
       /\ last_check.passed_before >= rate_limit_per_minute) => last_check.raised

OtherKeysUntouched ==
    \A k \in UserKeys :
        (last_check'.user_key # k /\ client_connected' = client_connected)
            => (rate_limits'[k] = rate_limits[k] /\ passed'[k] = passed[k])

OwnSessionData ==
    (last_get.outcome = "data" /\ last_get.data.v # 0) =>
        last_get.data.by = last_get.token

====
